---------------------------- MODULE Spec2Model ----------------------------
(***************************************************************************)
(* Model of innerorbit-game/src/main.js: the ShaderScene of a Phaser 3     *)
(* platformer (player, platforms, 12 stars, bombs, score, game over,       *)
(* shader toggle) and the WaveShaderPipeline whose time feeds uTime.       *)
(*                                                                         *)
(* The engine is the environment.  What the model takes from it:           *)
(*  - physics.pause() stops the arcade world, so no overlap or collider    *)
(*    callback (collectStar, hitBomb) is dispatched until the scene is     *)
(*    started again with a new world;                                      *)
(*  - a disabled body (star.disableBody) takes part in no overlap;         *)
(*  - scene.restart() is queued and carried out at the start of the next   *)
(*    game step, before update; it runs create() again on a fresh scene    *)
(*    (input listeners of the old run are removed at shutdown);            *)
(*  - a game object always has a pipeline: the default one ("Multi")       *)
(*    from construction, or after resetPipeline();                         *)
(*  - pipelines.add keeps the pipeline already registered as 'Wave', so    *)
(*    the registered pipeline's time is not touched by a restart.          *)
(* Positions, bounce factors and random velocities are left out: no        *)
(* handler reads them except to place a new bomb.                          *)
(* time is counted in units of the 0.01 step of onPreRender.               *)
(***************************************************************************)
EXTENDS Integers, Sequences, FiniteSets, TLC

\* ---- bounds of the model
MaxCollected == 13
MaxFrames == 60

\* ---- program constants
Repeat == 11
NumStars == Repeat + 1
NumPlatforms == 4
ScoreStep == 10
JumpVelocity == 0 - 350
RunVelocity == 160
TimeStep == 1

Stars == 1..NumStars
Platforms == 1..NumPlatforms

\* the pipeline a game object renders with: the custom one, the engine's
\* default, or none (a falsy .pipeline, which the engine never produces)
Wave == "Wave"
DefaultPipeline == "Multi"
NoPipeline == "none"

VARIABLES
  score, scoreText,                 \* this.score, this.scoreText.text
  gameOver, gameOverTextVisible,    \* this.gameOver, this.gameOverText.visible
  shaderEnabled,                    \* this.shaderEnabled
  sky, platforms,                   \* pipeline of the sky image, of each platform
  starsActive, starsPipeline,       \* per star: active flag, pipeline
  player,                           \* velocityX, velocityY, anim, tinted, pipeline
  bombs,                            \* sequence of the bombs' pipelines
  physicsPaused,                    \* arcade world paused (physics.pause())
  restartQueued,                    \* scene.restart() requested, not yet carried out
  time, uTime,                      \* WaveShaderPipeline.time, the uTime uniform
  frames,                           \* history: number of onPreRender calls
  hist,                             \* history: shaderEnabled before each of the last
                                    \* (at most two) consecutive S presses
  tracking                          \* whether hist is being recorded

sceneVars == <<score, scoreText, gameOver, gameOverTextVisible, shaderEnabled,
               sky, platforms, starsActive, starsPipeline, player, bombs,
               physicsPaused>>
pipelineVars == <<time, uTime, frames>>
vars == <<sceneVars, restartQueued, pipelineVars, hist, tracking>>

\* ---- text
Digit(d) == CASE d = 0 -> "0" [] d = 1 -> "1" [] d = 2 -> "2" [] d = 3 -> "3"
              [] d = 4 -> "4" [] d = 5 -> "5" [] d = 6 -> "6" [] d = 7 -> "7"
              [] d = 8 -> "8" [] d = 9 -> "9"

RECURSIVE NumberToString(_)
\* JavaScript's string form of an integer: a sign, then its decimal digits
NumberToString(n) ==
  IF n < 0 THEN <<"-">> \o NumberToString(0 - n)
  ELSE IF n < 10 THEN <<Digit(n)>>
  ELSE Append(NumberToString(n \div 10), Digit(n % 10))

ScorePrefix == <<"S", "c", "o", "r", "e", ":", " ">>

\* 'Score: ' + this.score
ScoreLabel(n) == ScorePrefix \o NumberToString(n)

\* the literal 'Score: 0' of create()
InitialScoreText == <<"S", "c", "o", "r", "e", ":", " ", "0">>

\* ---- the handlers' steps; each is preceded by the faulty variants the
\* theorems below are tested against
\* this.score += 10
AddScoreOff(sc) == sc + ScoreStep + 1
AddScoreDown(sc) == sc - ScoreStep
AddScore(sc) == sc + ScoreStep

\* this.scoreText.setText('Score: ' + this.score)
SetText(text, sc) == ScoreLabel(sc)

\* this.shaderEnabled = !this.shaderEnabled
ToggledOff(flag) == FALSE
Toggled(flag) == ~flag

\* if (this.gameOver) { this.scene.restart(); }
RestartRequestedAlways == TRUE
RestartRequested == gameOver

\* this.physics.pause()
PauseMissing == physicsPaused
Pause == TRUE

\* this.gameOverText.visible = true
ShowGameOverTextMissing == gameOverTextVisible
ShowGameOverText == TRUE

\* (cursors.up.isDown || cursors.space.isDown) && player.body.touching.down
CanJumpInAir(up, space, touchingDown) == up \/ space
CanJump(up, space, touchingDown) == (up \/ space) /\ touchingDown

\* if (this.shaderEnabled) { bomb.setPipeline('Wave'); }
NewBombPipelineAlways(enabled) == Wave
NewBombPipeline(enabled) == IF enabled THEN Wave ELSE DefaultPipeline

\* this.time += 0.01
AdvanceTimeStuck(t) == t
AdvanceTime(t) == t + TimeStep

\* ---- groups
\* stars.countActive(true)
CountActive(active) == Cardinality({s \in Stars : active[s]})

\* star.disableBody(true, true)
DisableBody(active, s) == [active EXCEPT ![s] = FALSE]

\* stars.children.iterate(child => child.enableBody(...))
EnableAll == [s \in Stars |-> TRUE]

\* this.stars.countActive(true) === 0
AllCollectedEarly(active) == CountActive(active) <= 1
AllCollected(active) == CountActive(active) = 0

\* ---- history of S presses
NoteOther == hist' = <<>> /\ UNCHANGED tracking
NotePress ==
  /\ hist' = IF ~tracking THEN hist
             ELSE IF Len(hist) = 2 THEN <<hist[2], shaderEnabled>>
             ELSE Append(hist, shaderEnabled)
  /\ UNCHANGED tracking

\* ---- create(): the state of a freshly created scene
InitialPlayer ==
  [velocityX |-> 0, velocityY |-> 0, anim |-> "none", tinted |-> FALSE,
   pipeline |-> Wave]

Created ==
  /\ score = 0
  /\ scoreText = InitialScoreText
  /\ gameOver = FALSE
  /\ gameOverTextVisible = FALSE
  /\ shaderEnabled = TRUE
  /\ sky = Wave
  /\ platforms = [p \in Platforms |-> Wave]
  /\ starsActive = [s \in Stars |-> TRUE]
  /\ starsPipeline = [s \in Stars |-> Wave]
  /\ player = InitialPlayer
  /\ bombs = <<>>
  /\ physicsPaused = FALSE
  /\ restartQueued = FALSE
  /\ time = 0
  /\ uTime = 0
  /\ frames = 0
  /\ hist = <<>>

Init == Created /\ tracking = FALSE

\* the same program, with the S presses recorded
InitTracked == Created /\ tracking = TRUE

\* ---- pointerdown handler
Click ==
  /\ restartQueued' = (restartQueued \/ RestartRequested)
  /\ UNCHANGED <<sceneVars, pipelineVars>>
  /\ NoteOther

\* ---- the queued scene.restart(): shutdown, then create() again
Restart ==
  /\ restartQueued
  /\ restartQueued' = FALSE
  /\ score' = 0
  /\ scoreText' = InitialScoreText
  /\ gameOver' = FALSE
  /\ gameOverTextVisible' = FALSE
  /\ shaderEnabled' = TRUE
  /\ sky' = Wave
  /\ platforms' = [p \in Platforms |-> Wave]
  /\ starsActive' = [s \in Stars |-> TRUE]
  /\ starsPipeline' = [s \in Stars |-> Wave]
  /\ player' = InitialPlayer
  /\ bombs' = <<>>
  /\ physicsPaused' = FALSE
  /\ UNCHANGED pipelineVars
  /\ NoteOther

\* ---- keydown-S handler
ToggleShader ==
  /\ shaderEnabled' = Toggled(shaderEnabled)
  /\ IF shaderEnabled'
       THEN /\ sky' = Wave
            /\ platforms' = [p \in Platforms |-> Wave]
            /\ starsPipeline' = [s \in Stars |-> Wave]
            /\ player' = [player EXCEPT !.pipeline = Wave]
            /\ bombs' = [b \in 1..Len(bombs) |-> Wave]
       ELSE /\ sky' = DefaultPipeline
            /\ platforms' = [p \in Platforms |-> DefaultPipeline]
            /\ starsPipeline' = [s \in Stars |-> DefaultPipeline]
            /\ player' = [player EXCEPT !.pipeline = DefaultPipeline]
            /\ bombs' = [b \in 1..Len(bombs) |-> DefaultPipeline]
  /\ UNCHANGED <<score, scoreText, gameOver, gameOverTextVisible, starsActive,
                 physicsPaused, restartQueued, pipelineVars>>
  /\ NotePress

\* ---- update(), with the polled input: cursor keys and body.touching.down
Update(left, right, up, space, touchingDown) ==
  /\ ~restartQueued
  /\ IF gameOver
       THEN UNCHANGED <<player, bombs>>
       ELSE /\ player' =
                 [player EXCEPT
                    !.velocityX = IF left THEN 0 - RunVelocity
                                  ELSE IF right THEN RunVelocity ELSE 0,
                    !.anim = IF left THEN "left"
                             ELSE IF right THEN "right" ELSE "turn",
                    !.velocityY = IF CanJump(up, space, touchingDown)
                                    THEN JumpVelocity ELSE @]
            /\ bombs' = IF shaderEnabled
                          THEN [b \in 1..Len(bombs) |->
                                  IF bombs[b] = NoPipeline THEN Wave ELSE bombs[b]]
                          ELSE bombs
  /\ UNCHANGED <<score, scoreText, gameOver, gameOverTextVisible, shaderEnabled,
                 sky, platforms, starsActive, starsPipeline, physicsPaused,
                 restartQueued, pipelineVars>>
  /\ NoteOther

\* ---- collectStar(player, star): overlap callback of the player and star s
CollectStar(s) ==
  /\ ~physicsPaused
  /\ starsActive[s]
  /\ score < ScoreStep * MaxCollected
  /\ score' = AddScore(score)
  /\ scoreText' = SetText(scoreText, score')
  /\ LET disabled == DisableBody(starsActive, s) IN
       IF AllCollected(disabled)
         THEN /\ starsActive' = EnableAll
              /\ starsPipeline' = [c \in Stars |->
                                     IF shaderEnabled THEN Wave ELSE starsPipeline[c]]
              /\ bombs' = Append(bombs, NewBombPipeline(shaderEnabled))
         ELSE /\ starsActive' = disabled
              /\ UNCHANGED <<starsPipeline, bombs>>
  /\ UNCHANGED <<gameOver, gameOverTextVisible, shaderEnabled, sky, platforms,
                 player, physicsPaused, restartQueued, pipelineVars>>
  /\ NoteOther

\* ---- hitBomb(player, bomb): collider callback of the player and bomb b
HitBomb(b) ==
  /\ ~physicsPaused
  /\ b \in 1..Len(bombs)
  /\ physicsPaused' = Pause
  /\ player' = [player EXCEPT !.tinted = TRUE, !.anim = "turn"]
  /\ gameOver' = TRUE
  /\ gameOverTextVisible' = ShowGameOverText
  /\ UNCHANGED <<score, scoreText, shaderEnabled, sky, platforms, starsActive,
                 starsPipeline, bombs, restartQueued, pipelineVars>>
  /\ NoteOther

\* ---- a step of the arcade world: the platform collider brings the jumping
\* player back to rest
WorldStep ==
  /\ ~physicsPaused
  /\ player.velocityY # 0
  /\ player' = [player EXCEPT !.velocityY = 0]
  /\ UNCHANGED <<score, scoreText, gameOver, gameOverTextVisible, shaderEnabled,
                 sky, platforms, starsActive, starsPipeline, bombs, physicsPaused,
                 restartQueued, pipelineVars>>
  /\ NoteOther

\* ---- WaveShaderPipeline.onPreRender()
OnPreRender ==
  /\ frames < MaxFrames
  /\ uTime' = time
  /\ time' = AdvanceTime(time)
  /\ frames' = frames + 1
  /\ UNCHANGED <<sceneVars, restartQueued, hist, tracking>>

Next ==
  \/ Click
  \/ Restart
  \/ ToggleShader
  \/ \E left, right, up, space, touchingDown \in BOOLEAN :
       Update(left, right, up, space, touchingDown)
  \/ \E s \in Stars : CollectStar(s)
  \/ \E b \in 1..Len(bombs) : HitBomb(b)
  \/ WorldStep

Spec == Init /\ [][Next]_vars

SpecTracked == InitTracked /\ [][Next]_vars

\* the frame loop alone: rendering and the S key
NextRender ==
  \/ OnPreRender
  \/ ToggleShader

SpecRender == Init /\ [][NextRender]_vars

\* ======================================================================
\* Properties
\* ======================================================================

HitBombStep == \E b \in 1..Len(bombs) : HitBomb(b)
CollectStarStep == \E s \in Stars : CollectStar(s)

\* reading a text back: the digit a character stands for, -1 if none
DigitValue(c) ==
  IF \E d \in 0..9 : Digit(d) = c THEN CHOOSE d \in 0..9 : Digit(d) = c ELSE 0 - 1

RECURSIVE DigitsValue(_)
DigitsValue(ds) ==
  IF Len(ds) = 0 THEN 0
  ELSE 10 * DigitsValue(SubSeq(ds, 1, Len(ds) - 1)) + DigitValue(ds[Len(ds)])

\* text reads 'Score: ' followed by the decimal numeral of n
ShowsScore(text, n) ==
  /\ Len(text) > Len(ScorePrefix)
  /\ SubSeq(text, 1, Len(ScorePrefix)) = ScorePrefix
  /\ LET ds == SubSeq(text, Len(ScorePrefix) + 1, Len(text)) IN
       /\ \A i \in 1..Len(ds) : DigitValue(ds[i]) >= 0
       /\ (Len(ds) > 1 => ds[1] # "0")
       /\ DigitsValue(ds) = n

\* every object of the scene that can carry the 'Wave' pipeline
UsesWave ==
  {sky = Wave, player.pipeline = Wave}
    \cup {platforms[p] = Wave : p \in Platforms}
    \cup {starsPipeline[s] = Wave : s \in Stars}
    \cup {bombs[b] = Wave : b \in 1..Len(bombs)}

C2_ScoreStepAndText ==
  /\ [](score >= 0 /\ score % 10 = 0 /\ ShowsScore(scoreText, score))
  /\ [][\A s \in Stars : CollectStar(s) =>
          /\ score' = score + 10
          /\ \/ starsActive' = [starsActive EXCEPT ![s] = FALSE]
             \/ /\ \A c \in Stars : c # s => ~starsActive[c]
                /\ \A c \in Stars : starsActive'[c]]_vars

\* a three-digit score, with some star collected in the current round
C2_Witness == score >= 100 /\ \E s \in Stars : ~starsActive[s]

\* C3: the score never goes down, except by the scene restart, which sets it
\* to zero.
C3_ScoreMonotone ==
  [][score' >= score \/ (Restart /\ score' = 0)]_vars

\* a restart is about to reset a positive score
C3_Witness == restartQueued /\ score > 0

\* C4: a click while gameOver is false changes nothing of the scene and
\* requests no restart; a click while gameOver is true requests the restart;
\* the scene restarts only after game over, and the restarted scene has
\* score 0, gameOver false, the game-over text hidden and the shader enabled.
C4_ClickRestartsAfterGameOver ==
  [][/\ (Click /\ ~gameOver) => UNCHANGED <<sceneVars, restartQueued>>
     /\ (Click /\ gameOver) => (restartQueued' /\ UNCHANGED sceneVars)
     /\ restartQueued' => gameOver'
     /\ Restart => /\ gameOver
                   /\ score' = 0
                   /\ ~gameOver'
                   /\ ~gameOverTextVisible'
                   /\ shaderEnabled'
                   /\ ~restartQueued']_vars

\* a restart is pending on a scene whose shader was switched off
C4_Witness == restartQueued /\ gameOver /\ ~shaderEnabled /\ gameOverTextVisible

\* C5: after two S presses in a row, shaderEnabled has the value it had before
\* the first of the two.
C5_DoubleToggleRestores ==
  Len(hist) = 2 => shaderEnabled = hist[1]

\* two presses in a row, in a scene that already has a bomb
C5_Witness == Len(hist) = 2 /\ Len(bombs) > 0 /\ ~shaderEnabled

\* C6: each onPreRender uploads the current time and then advances it by one
\* step: the n-th frame uploads n-1 steps, more than the frame before it.
C6_TimeUploadedThenAdvanced ==
  [][OnPreRender =>
       /\ uTime' = time
       /\ uTime' = (frames' - 1) * TimeStep
       /\ time' = frames' * TimeStep
       /\ (frames >= 1 => uTime' > uTime)]_vars

\* the third frame has uploaded two steps
C6_Witness == frames = 3 /\ uTime = 2 * TimeStep /\ time = 3 * TimeStep

\* C7: collectStar adds a bomb and re-enables all 12 stars exactly when it
\* collects the last active star; so the number of bombs is score div 120 and
\* the number of active stars is 12 - ((score / 10) mod 12).
C7_BombPerRound ==
  /\ [](/\ Len(bombs) = score \div 120
        /\ CountActive(starsActive) = 12 - ((score \div 10) % 12))
  /\ [][\A s \in Stars : CollectStar(s) =>
          IF \A c \in Stars : c # s => ~starsActive[c]
            THEN /\ Len(bombs') = Len(bombs) + 1
                 /\ \A c \in Stars : starsActive'[c]
            ELSE /\ bombs' = bombs
                 /\ CountActive(starsActive') = CountActive(starsActive) - 1]_vars

\* the second round has begun: one bomb, all stars but one active again
C7_Witness == Len(bombs) = 1 /\ CountActive(starsActive) = NumStars - 1

\* C8: update sets the vertical velocity to -350 exactly when the game is not
\* over, up or space is down and the player touches the ground; otherwise it
\* leaves the vertical velocity as it was.
C8_JumpOnlyFromGround ==
  [][\A left, right, up, space, touchingDown \in BOOLEAN :
       \/ IF ~gameOver /\ (up \/ space) /\ touchingDown
            THEN player'.velocityY = 0 - 350
            ELSE player'.velocityY = player.velocityY
       \/ ~Update(left, right, up, space, touchingDown)]_vars

\* the player jumped, and the game ended while it was in the air
C8_Witness == player.velocityY = JumpVelocity /\ gameOver

\* C9: when shaderEnabled is true the sky, every platform, every star, the
\* player and every bomb use 'Wave'; when it is false none of them does.
C9_FlagAgreesWithPipelines ==
  IF shaderEnabled THEN UsesWave = {TRUE} ELSE UsesWave = {FALSE}

\* shader off in the second round: a bomb and re-enabled stars exist
C9_Witness ==
  ~shaderEnabled /\ Len(bombs) > 0 /\ ~gameOver /\ CountActive(starsActive) = NumStars

\* C10: the game-over text is visible exactly when gameOver is true; gameOver
\* becomes true only by hitBomb and false only by the scene restart.
C10_GameOverTextAndFlag ==
  /\ [](gameOverTextVisible = gameOver)
  /\ [][/\ (~gameOver /\ gameOver') => HitBombStep
        /\ (gameOver /\ ~gameOver') => Restart]_vars

\* game over shown, no restart requested yet
C10_Witness == gameOver /\ gameOverTextVisible /\ ~restartQueued /\ player.tinted

=============================================================================
